---- MODULE Spec2Model ----
(***************************************************************************)
(* Resource accounting of docker_resource_check_python.                    *)
(*                                                                         *)
(* Two programs are modelled:                                              *)
(*   "direct" : kubernaties_docker_local.py, which samples the cgroup      *)
(*              accounting files (monitor_resources);                      *)
(*   "stats"  : main.py, which samples the container runtime's stats       *)
(*              snapshot (monitor_own_container).                          *)
(* Each runs its sampling loop beside heavy_computation_background under   *)
(* asyncio.gather on one cooperative event loop.                           *)
(*                                                                         *)
(* Python floats are modelled as exact rationals [n, d] in lowest terms.   *)
(* An operator that models a block of statements yields an outcome:        *)
(* "return" with a value, "raise" (an exception leaves the block) or       *)
(* "fall" (control reaches the statement after the block).                 *)
(***************************************************************************)
EXTENDS Integers, Sequences, FiniteSets, TLC

\* ------------------------------------------------------------ bounds
\* quota values written to the accounting files range over -1..MaxQuota
MaxQuota == 2
\* period values range over -1..MaxPeriod
MaxPeriod == 2
\* the kernel's cumulative CPU counter ranges over 0..MaxCpu steps of CpuStep ns
MaxCpu == 2
\* seconds elapsed between two readings of the monotonic clock: 1..MaxDelta
MaxDelta == 2
\* memory counters range over 0..MaxMemMb mebibytes
MaxMemMb == 1
\* heavy_computation tasks alive at once
MaxTasks == 2
\* rows of the matrix of one heavy_computation
Rows == 2
\* counters inside a stats snapshot range over 0..MaxStat
MaxStat == 2

\* ------------------------------------------------------------ program constants
NanosPerSec == 1000000000
BytesPerMb == 1048576
UsecToNanos == 1000
Percent == 100
\* one step of the CPU counter: a quarter of a second of CPU time, in ns
CpuStep == NanosPerSec \div 4

\* ------------------------------------------------------------ rationals
Abs(x) == IF x < 0 THEN -x ELSE x

\* Euclid's algorithm (a function: its arguments are evaluated once)
GCD[a \in Nat, b \in Nat] == IF b = 0 THEN a ELSE GCD[b, a % b]

\* n/d in lowest terms with d > 0; d # 0 is the caller's duty
Rat[n \in Int, d \in Int] ==
    LET g == GCD[Abs(n), Abs(d)]
        s == IF d < 0 THEN -1 ELSE 1
    IN [n |-> (s * n) \div g, d |-> Abs(d) \div g]

Rats == [n : Int, d : Nat]
Zero == [n |-> 0, d |-> 1]
One == [n |-> 1, d |-> 1]
FromInt(i) == [n |-> i, d |-> 1]
RatMul[a \in Rats, b \in Rats] == Rat[a.n * b.n, a.d * b.d]
\* b.n # 0 is the caller's duty
RatDiv[a \in Rats, b \in Rats] == Rat[a.n * b.d, a.d * b.n]
RatIsZero(a) == a.n = 0
RatPos(a) == a.n > 0

\* ------------------------------------------------------------ outcomes
Ret(v) == [k |-> "return", v |-> v]
Raise == [k |-> "raise", v |-> Zero]
Fall == [k |-> "fall", v |-> Zero]
\* except Exception as e: logging...(e)  -- the block is left normally
Catch(o) == IF o.k = "raise" THEN Fall ELSE o
\* a block followed by the rest of the function
Then(o, rest) == IF o.k = "fall" THEN rest ELSE o

\* ------------------------------------------------------------ files
\* A single-integer file: missing, unreadable (open or read raises),
\* malformed (int() raises), "max" (the literal token) or an integer.
IntFile(st, v) == [st |-> st, v |-> v]
Missing == IntFile("missing", 0)
Unreadable == IntFile("unreadable", 0)
Malformed == IntFile("malformed", 0)
MaxToken == IntFile("max", 0)
Holds(v) == IntFile("int", v)

\* os.path.exists(path)
Exists(f) == f.st # "missing"
\* with open(path) as f: int(f.read().strip())  succeeds (else it raises)
Parses(f) == f.st = "int"

\* /sys/fs/cgroup/cpu.max: the whitespace-separated tokens of its content
\*   "empty": no token; "max": first token is max; "qonly": one integer token;
\*   "pair": two integer tokens; "malformed": a token int() rejects
PairFile(st, q, p) == [st |-> st, q |-> q, p |-> p]

QuotaVals == -1 .. MaxQuota
PeriodVals == -1 .. MaxPeriod
QuotaFiles == {Missing, Unreadable, Malformed} \cup {Holds(v) : v \in QuotaVals}
PeriodFiles == {Missing, Unreadable, Malformed} \cup {Holds(v) : v \in PeriodVals}
CpuMaxFiles ==
    {PairFile(st, 0, 0) : st \in {"missing", "unreadable", "empty", "max", "malformed"}}
    \cup {PairFile("qonly", q, 0) : q \in QuotaVals}
    \cup {PairFile("pair", q, p) : q \in QuotaVals, p \in PeriodVals}

\* quota / period on two Python ints
IntDiv(q, p) == IF p = 0 THEN Raise ELSE Ret(Rat[q, p])


\* ------------------------------------------------------------ get_cpu_limit
\* kubernaties_docker_local.py: the cgroup v1 block
LimitV1Local(qf, pf) ==
    IF Exists(qf) /\ Exists(pf)
    THEN Catch(IF ~Parses(qf) THEN Raise
               ELSE IF ~Parses(pf) THEN Raise
               ELSE IF qf.v = -1 \/ qf.v <= 0 THEN Ret(One)
               ELSE IntDiv(qf.v, pf.v))
    ELSE Fall

\* kubernaties_docker_local.py: the cgroup v2 block
LimitV2Local(mf) ==
    IF mf.st # "missing"
    THEN Catch(CASE mf.st = "unreadable" -> Raise
                 [] mf.st = "empty" -> Raise
                 [] mf.st = "max" -> Ret(One)
                 [] mf.st = "malformed" -> Raise
                 [] mf.st = "qonly" -> Raise
                 [] OTHER -> IF mf.q <= 0 THEN Ret(One) ELSE IntDiv(mf.q, mf.p))
    ELSE Fall

get_cpu_limit_local(qf, pf, mf) ==
    Then(LimitV1Local(qf, pf), Then(LimitV2Local(mf), Ret(One)))

\* main.py: the cgroup v1 block
LimitV1Main(qf, pf) ==
    Catch(IF ~Parses(qf) THEN Raise
          ELSE IF ~Parses(pf) THEN Raise
          ELSE IF qf.v > 0 THEN IntDiv(qf.v, pf.v)
          ELSE Fall)

\* main.py: the cgroup v2 block
LimitV2Main(mf) ==
    Catch(CASE mf.st = "missing" -> Raise
            [] mf.st = "unreadable" -> Raise
            [] mf.st = "empty" -> Raise
            [] mf.st = "max" -> Fall
            [] mf.st = "malformed" -> Raise
            [] mf.st = "qonly" -> Raise
            [] OTHER -> IF mf.q > 0 THEN IntDiv(mf.q, mf.p) ELSE Fall)

get_cpu_limit_main(qf, pf, mf) ==
    Then(LimitV1Main(qf, pf), Then(LimitV2Main(mf), Ret(One)))

\* ------------------------------------------------------------ counter readers
\* /sys/fs/cgroup/cpu.stat: "nokey": no usage_usec line; "noval": the line has
\* no second token; "malformed": int() rejects it; "int": usage_usec = v
StatFile(st, v) == [st |-> st, v |-> v]

\* a candidate that exists but fails to parse ends the search
RECURSIVE ReadFirstStopAtFailure(_, _)
ReadFirstStopAtFailure(paths, i) ==
    IF i > Len(paths) THEN Fall
    ELSE IF Exists(paths[i])
    THEN Catch(IF Parses(paths[i]) THEN Ret(paths[i].v) ELSE Raise)
    ELSE ReadFirstStopAtFailure(paths, i + 1)

\* for path in paths: if os.path.exists(path): try: return int(...) except: log
RECURSIVE ReadFirst(_, _)
ReadFirst(paths, i) ==
    IF i > Len(paths) THEN Fall
    ELSE Then(IF Exists(paths[i])
              THEN Catch(IF Parses(paths[i]) THEN Ret(paths[i].v) ELSE Raise)
              ELSE Fall,
              ReadFirst(paths, i + 1))

\* the cgroup v2 block of read_cpu_usage
ReadCpuStat(sf) ==
    IF sf.st # "missing"
    THEN Catch(CASE sf.st = "unreadable" -> Raise
                 [] sf.st = "nokey" -> Fall
                 [] sf.st = "noval" -> Raise
                 [] sf.st = "malformed" -> Raise
                 [] OTHER -> Ret(sf.v * UsecToNanos))
    ELSE Fall

\* cf = [paths |-> <<cpu,cpuacct/cpuacct.usage, cpuacct/cpuacct.usage>>, stat |-> cpu.stat]
read_cpu_usage(cf) == Then(ReadFirst(cf.paths, 1), Then(ReadCpuStat(cf.stat), Ret(0)))

\* mf = <<memory/memory.usage_in_bytes, memory.current>>
read_memory_usage(mf) == Then(ReadFirst(mf, 1), Ret(0))

\* xf = <<memory/memory.max, memory.max>>
get_total_memory_in_bytes(xf) == Then(ReadFirst(xf, 1), Ret(1))

\* which candidate a reading of cf comes from: 1, 2 (the cgroup v1 paths),
\* 3 (cpu.stat) or 0 (no candidate: the final return 0)
CpuSource(cf) ==
    IF ReadFirst(<<cf.paths[1]>>, 1).k = "return" THEN 1
    ELSE IF ReadFirst(cf.paths, 1).k = "return" THEN 2
    ELSE IF ReadCpuStat(cf.stat).k = "return" THEN 3
    ELSE 0

\* whether get_total_memory_in_bytes found no limit and returned its fallback
LimitIsFallback(xf) == ReadFirst(xf, 1).k # "return"

\* ------------------------------------------------------------ stats snapshot
None == <<>>
Some(x) == <<x>>
Has(o) == o # <<>>
Get(o) == o[1]

\* {} : what dict.get(key, {}) yields for a missing key
EmptyUsage == [total_usage |-> None, percpu_usage |-> None]
EmptyCpu == [cpu_usage |-> None, system_cpu_usage |-> None, online_cpus |-> None]
EmptyPre == [cpu_usage |-> None, system_cpu_usage |-> None]

GetOr(o, dflt) == IF Has(o) THEN Get(o) ELSE dflt

\* online_cpus falls back to 1 without counting the per-core entries
CalcBodyNoPercpu(stats) ==
    LET cpu_stats == GetOr(stats.cpu_stats, EmptyCpu)
        precpu_stats == GetOr(stats.precpu_stats, EmptyPre)
        pre_usage == GetOr(precpu_stats.cpu_usage, EmptyUsage)
        pre_total == GetOr(pre_usage.total_usage, 0)
    IN  IF precpu_stats = EmptyPre \/ pre_total = 0 THEN Ret(Zero)
        ELSE IF ~Has(cpu_stats.cpu_usage) THEN Raise
        ELSE IF ~Has(Get(cpu_stats.cpu_usage).total_usage) THEN Raise
        ELSE LET cpu_usage == Get(cpu_stats.cpu_usage)
                 delta_container == Get(cpu_usage.total_usage) - pre_total
                 delta_system == GetOr(cpu_stats.system_cpu_usage, 0)
                                 - GetOr(precpu_stats.system_cpu_usage, 0)
                 online_cpus == IF GetOr(cpu_stats.online_cpus, 0) # 0
                                THEN Get(cpu_stats.online_cpus)
                                ELSE 1
             IN  IF delta_system > 0 /\ delta_container > 0
                 THEN Ret(RatMul[RatMul[Rat[delta_container, delta_system],
                                        FromInt(online_cpus)], FromInt(Percent)])
                 ELSE Fall

\* the body of the try block of calculate_cpu_percent
CalcBody(stats) ==
    LET cpu_stats == GetOr(stats.cpu_stats, EmptyCpu)
        precpu_stats == GetOr(stats.precpu_stats, EmptyPre)
        pre_usage == GetOr(precpu_stats.cpu_usage, EmptyUsage)
        pre_total == GetOr(pre_usage.total_usage, 0)
    IN  IF precpu_stats = EmptyPre \/ pre_total = 0 THEN Ret(Zero)
        ELSE IF ~Has(cpu_stats.cpu_usage) THEN Raise
        ELSE IF ~Has(Get(cpu_stats.cpu_usage).total_usage) THEN Raise
        ELSE LET cpu_usage == Get(cpu_stats.cpu_usage)
                 delta_container == Get(cpu_usage.total_usage) - pre_total
                 delta_system == GetOr(cpu_stats.system_cpu_usage, 0)
                                 - GetOr(precpu_stats.system_cpu_usage, 0)
                 len_percpu == GetOr(cpu_usage.percpu_usage, 0)
                 online_cpus == IF GetOr(cpu_stats.online_cpus, 0) # 0
                                THEN Get(cpu_stats.online_cpus)
                                ELSE IF len_percpu # 0 THEN len_percpu ELSE 1
             IN  IF delta_system > 0 /\ delta_container > 0
                 THEN Ret(RatMul[RatMul[Rat[delta_container, delta_system],
                                        FromInt(online_cpus)], FromInt(Percent)])
                 ELSE Fall

calculate_cpu_percent(stats) == Then(Catch(CalcBody(stats)), Ret(Zero))

\* ------------------------------------------------------------ state
VARIABLES
    program,                \* "direct" (kubernaties_docker_local.py) or "stats" (main.py)
    monPc,                  \* position of the monitoring coroutine
    mainPc,                 \* main(): "gathering", "failed" (gather re-raised), "cancelled"
    bgPc,                   \* heavy_computation_background: "running" or "cancelled"
    tasks,                  \* heavy_computation tasks alive: position -> how many
    hostname,               \* os.environ.get("HOSTNAME"): None, Some("") or Some(id)
    container_found,        \* whether client.containers.get(container_id) succeeds
    quotaFile, periodFile,  \* /sys/fs/cgroup/cpu/cpu.cfs_quota_us, cpu.cfs_period_us
    cpuMaxFile,             \* /sys/fs/cgroup/cpu.max
    kcpu,                   \* the kernel's cumulative CPU counter, in steps of CpuStep
    cpuFiles,               \* the CPU usage files as last read
    memFiles,               \* the memory usage files as last read
    maxFiles,               \* the memory limit files as last read
    stats,                  \* what container.stats(stream=False) last gave
    cpu_limit,              \* monitor's cpu_limit (None before it is assigned)
    prev_cpu,               \* monitor_resources' prev_cpu
    prev_src,               \* history: the candidate prev_cpu was read from
    pair,                   \* history: the readings the last delta was computed from
    mem_usage,              \* monitor_resources' mem_usage
    total_memory_in_bytes,  \* monitor_resources' total_memory_in_bytes
    sample                  \* the last sample logged (None before the first)

vars == <<program, monPc, mainPc, bgPc, tasks, hostname, container_found,
          quotaFile, periodFile, cpuMaxFile, kcpu, cpuFiles, memFiles, maxFiles,
          stats, cpu_limit, prev_cpu, prev_src, pair, mem_usage,
          total_memory_in_bytes, sample>>

limitFiles == <<quotaFile, periodFile, cpuMaxFile>>
usageFiles == <<kcpu, cpuFiles, memFiles, maxFiles>>
dockerEnv == <<hostname, container_found>>
workload == <<bgPc, tasks>>
monitorData == <<cpu_limit, prev_cpu, prev_src, pair, mem_usage,
                 total_memory_in_bytes, sample>>

\* ------------------------------------------------------------ environments
NoCpuFiles == [paths |-> <<Missing, Missing>>, stat |-> StatFile("missing", 0)]
NoMemFiles == <<Missing, Missing>>
NoStats == [k |-> "none", v |-> <<>>]
NoTasks == [i \in 0 .. Rows |-> 0]

\* the usage files of a host that exposes counter value k through at most one
\* of the three candidates
CpuEnv(k) ==
    { NoCpuFiles,
      [paths |-> <<Holds(k * CpuStep), Missing>>, stat |-> StatFile("missing", 0)],
      [paths |-> <<Missing, Holds(k * CpuStep)>>, stat |-> StatFile("missing", 0)],
      [paths |-> <<Missing, Missing>>,
       stat |-> StatFile("int", (k * CpuStep) \div UsecToNanos)] }

\* the memory files of one turn, <<usage files, limit files>>: nothing
\* exposed; a usage under the literal max; a usage under a limit of 0; and
\* every usage under every positive limit
MemoryEnv ==
    { <<NoMemFiles, NoMemFiles>>,
      <<<<Missing, Holds(BytesPerMb)>>, <<Missing, MaxToken>>>>,
      <<<<Missing, Holds(BytesPerMb)>>, <<Missing, Holds(0)>>>> }
    \cup { <<<<Missing, Holds(u * BytesPerMb)>>, <<Missing, Holds(m * BytesPerMb)>>>> :
             u \in 0 .. MaxMemMb, m \in 1 .. MaxMemMb }

SteadyMemory == <<<<Missing, Holds(BytesPerMb)>>, <<Missing, Holds(BytesPerMb)>>>>

\* what one turn of the loop finds, from counter value k0: either the CPU
\* side changes (the counter advances, another candidate is exposed, some time
\* passes) under steady memory files, or the memory side changes under a
\* steady CPU counter file
TickEnv(k0) ==
    UNION { { [k |-> k, cf |-> cf, delta_time |-> dt, mem |-> SteadyMemory] :
                cf \in CpuEnv(k), dt \in 1 .. MaxDelta } : k \in k0 .. MaxCpu }
    \cup { [k |-> k0, cf |-> [paths |-> <<Holds(k0 * CpuStep), Missing>>,
                               stat |-> StatFile("missing", 0)],
            delta_time |-> 1, mem |-> m] : m \in MemoryEnv }

\* the CPU limit files the sampling loops are started under
LoopLimitFiles ==
    { <<Missing, Missing, PairFile("missing", 0, 0)>>,
      <<Holds(1), Holds(2), PairFile("missing", 0, 0)>>,
      <<Holds(1), Holds(-1), PairFile("missing", 0, 0)>>,
      <<Missing, Missing, PairFile("pair", 2, 1)>> }

\* ------------------------------------------------------------ main() and the workload
Alive(t) == LET S[i \in -1 .. Rows] == IF i < 0 THEN 0 ELSE S[i - 1] + t[i] IN S[Rows]

\* asyncio.gather(monitor, heavy_computation_background()) is still awaited
Running == mainPc = "gathering"

\* heavy_computation_background: one turn of its loop, create_task and sleep
heavy_computation_background ==
    /\ Running /\ bgPc = "running"
    /\ Alive(tasks) < MaxTasks
    /\ tasks' = [tasks EXCEPT ![0] = @ + 1]
    /\ UNCHANGED <<program, monPc, mainPc, bgPc, dockerEnv, limitFiles, usageFiles,
                   stats, monitorData>>

\* heavy_computation: the step of one task from position i: position 0 is the
\* created task, position i >= 1 the await asyncio.sleep of row i
heavy_computation(i) ==
    /\ Running /\ tasks[i] > 0
    /\ tasks' = IF i < Rows
                THEN [tasks EXCEPT ![i] = @ - 1, ![i + 1] = @ + 1]
                ELSE [tasks EXCEPT ![i] = @ - 1]
    /\ UNCHANGED <<program, monPc, mainPc, bgPc, dockerEnv, limitFiles, usageFiles,
                   stats, monitorData>>

\* an exception of the monitoring coroutine reaches gather, main() re-raises it
\* and asyncio.run cancels what is left
main_reraise ==
    /\ Running /\ monPc = "raised"
    /\ mainPc' = "failed" /\ bgPc' = "cancelled" /\ tasks' = NoTasks
    /\ UNCHANGED <<program, monPc, dockerEnv, limitFiles, usageFiles, stats, monitorData>>

\* external cancellation (KeyboardInterrupt, SIGTERM): asyncio.run cancels main()
external_cancel ==
    /\ Running
    /\ mainPc' = "cancelled" /\ bgPc' = "cancelled" /\ tasks' = NoTasks
    /\ monPc' = IF monPc \in {"returned", "raised"} THEN monPc ELSE "cancelled"
    /\ UNCHANGED <<program, dockerEnv, limitFiles, usageFiles, stats, monitorData>>

\* ------------------------------------------------------------ monitor_resources
\* the arithmetic of one turn of the loop, from the readings to the sample
\* logged; the division by total_memory_in_mb raises when that is 0.0
ResourceSample(prev, limit, current_cpu, delta_time, mem, total) ==
    LET delta_cpu == current_cpu - prev
        cpu_time_used == Rat[delta_cpu, NanosPerSec]
        raw_cpu_fraction == RatDiv[cpu_time_used, FromInt(delta_time)]
        raw_cpu_percent == RatMul[raw_cpu_fraction, FromInt(Percent)]
        effective_cpu_percent == IF RatPos(limit) THEN RatDiv[raw_cpu_percent, limit]
                                 ELSE raw_cpu_percent
        mem_usage_mb == Rat[mem, BytesPerMb]
        total_memory_in_mb == Rat[total, BytesPerMb]
    IN  IF RatIsZero(total_memory_in_mb) THEN Raise
        ELSE Ret([raw_cpu_percent |-> raw_cpu_percent,
                  effective_cpu_percent |-> effective_cpu_percent,
                  mem_usage_mb |-> mem_usage_mb,
                  memory_usage_percentage |->
                      RatMul[RatDiv[mem_usage_mb, total_memory_in_mb], FromInt(Percent)]])

\* cpu_limit = get_cpu_limit(); prev_cpu = read_cpu_usage(); prev_time = time.monotonic()
monitor_resources_start ==
    /\ Running /\ program = "direct" /\ monPc = "start"
    /\ LET lim == get_cpu_limit_local(quotaFile, periodFile, cpuMaxFile)
           cpu == read_cpu_usage(cpuFiles)
       IN  IF lim.k = "return" /\ cpu.k = "return"
           THEN /\ cpu_limit' = Some(lim.v)
                /\ prev_cpu' = cpu.v
                /\ prev_src' = CpuSource(cpuFiles)
                /\ monPc' = "sleeping"
           ELSE /\ monPc' = "raised"
                /\ UNCHANGED <<cpu_limit, prev_cpu, prev_src>>
    /\ UNCHANGED <<program, mainPc, workload, dockerEnv, limitFiles, usageFiles, stats,
                   pair, mem_usage, total_memory_in_bytes, sample>>

\* one turn of the while loop: the sleep ends, the counters are read, the sample
\* is computed and logged, the current reading is kept for the next turn.
\* time.monotonic() has no defined reference point: the model keeps the
\* difference of the two readings, which asyncio.sleep(1) makes at least 1.
monitor_resources_tick ==
    /\ Running /\ program = "direct" /\ monPc = "sleeping"
    /\ \E env \in TickEnv(kcpu) :
         LET k == env.k
             cf == env.cf
             delta_time == env.delta_time
             mf == env.mem[1]
             xf == env.mem[2]
             cpu == read_cpu_usage(cf)
             mem == read_memory_usage(mf)
             total == get_total_memory_in_bytes(xf)
             readOk == cpu.k = "return" /\ mem.k = "return" /\ total.k = "return"
             out == IF readOk
                    THEN ResourceSample(prev_cpu, Get(cpu_limit), cpu.v, delta_time,
                                        mem.v, total.v)
                    ELSE Raise
         IN  /\ kcpu' = k /\ cpuFiles' = cf /\ memFiles' = mf /\ maxFiles' = xf
             /\ pair' = IF cpu.k = "return"
                        THEN Some([prev_cpu |-> prev_cpu, prev_src |-> prev_src,
                                   current_cpu |-> cpu.v, current_src |-> CpuSource(cf),
                                   delta_time |-> delta_time])
                        ELSE pair
             /\ mem_usage' = IF readOk THEN mem.v ELSE mem_usage
             /\ total_memory_in_bytes' = IF readOk THEN total.v ELSE total_memory_in_bytes
             /\ IF out.k = "return"
                THEN /\ sample' = Some(out.v)
                     /\ prev_cpu' = cpu.v
                     /\ prev_src' = CpuSource(cf)
                     /\ monPc' = "sleeping"
                ELSE /\ monPc' = "raised"
                     /\ UNCHANGED <<sample, prev_cpu, prev_src>>
    /\ UNCHANGED <<program, mainPc, workload, dockerEnv, limitFiles, stats, cpu_limit>>

\* ------------------------------------------------------------ monitor_own_container
OptInts(S) == {None} \cup {Some(v) : v \in S}

Snap(cpu, pre, memo) == [cpu_stats |-> cpu, precpu_stats |-> pre, memory_stats |-> memo]
CpuStats(total, system, online) ==
    Some([cpu_usage |-> Some([total_usage |-> Some(total), percpu_usage |-> None]),
          system_cpu_usage |-> Some(system), online_cpus |-> Some(online)])
PreStats(total, system) ==
    Some([cpu_usage |-> Some([total_usage |-> Some(total), percpu_usage |-> None]),
          system_cpu_usage |-> Some(system)])
MemStats(usage, limit) == Some([usage |-> Some(usage), limit |-> Some(limit)])

\* snapshots the sampling loop is run on: a first one (precpu_stats is {}), a
\* later one, one without memory_stats, one without cpu_stats
StatsSamples ==
    { Snap(CpuStats(1, 1, 2), Some(EmptyPre), MemStats(BytesPerMb, 2 * BytesPerMb)),
      Snap(CpuStats(2, 2, 2), PreStats(1, 1), MemStats(BytesPerMb, 2 * BytesPerMb)),
      Snap(CpuStats(2, 2, 2), PreStats(1, 1), None),
      Snap(None, PreStats(1, 1), MemStats(BytesPerMb, 0)) }

\* what await asyncio.to_thread(container.stats, stream=False) gives: it
\* raises, or returns a snapshot, or a list of snapshots
Fetches ==
    {[k |-> "raise", v |-> <<>>], [k |-> "list", v |-> <<>>]}
    \cup {[k |-> "dict", v |-> <<st>>] : st \in StatsSamples}
    \cup {[k |-> "list", v |-> <<st, st>>] : st \in StatsSamples}

\* the try block of the while loop with its except clause
StatsSample(fetched, limit) ==
    Catch(IF fetched.k = "raise" THEN Raise
          ELSE IF Len(fetched.v) = 0 THEN Raise
          ELSE LET st == fetched.v[1]
                   cpu_usage == GetOr(GetOr(st.cpu_stats, EmptyCpu).cpu_usage, EmptyUsage)
                   raw == calculate_cpu_percent(st)
               IN  IF ~Has(cpu_usage.total_usage) THEN Raise
                   ELSE IF ~Has(st.memory_stats) THEN Raise
                   ELSE IF ~Has(Get(st.memory_stats).usage) THEN Raise
                   ELSE IF ~Has(Get(st.memory_stats).limit) THEN Raise
                   ELSE IF raw.k # "return" THEN Raise
                   ELSE Ret([cpu_usage |-> Get(cpu_usage.total_usage),
                             raw_cpu_percent |-> raw.v,
                             effective_cpu_percent |->
                                 IF RatPos(limit) THEN RatDiv[raw.v, limit] ELSE raw.v,
                             mem_usage_mb |-> Rat[Get(Get(st.memory_stats).usage), BytesPerMb],
                             mem_limit_mb |-> Rat[Get(Get(st.memory_stats).limit), BytesPerMb]]))

\* the lookup failure is not checked
NoContainerLookupIgnored(host, found) == ~Has(host) \/ Get(host) = ""

\* whether monitor_own_container leaves through one of its two early returns
NoContainer(host, found) == ~Has(host) \/ Get(host) = "" \/ ~found

\* from docker.from_env() to the first await of the loop. The runtime client
\* is an external collaborator: docker.from_env() is taken to give a client.
monitor_own_container_start ==
    /\ Running /\ program = "stats" /\ monPc = "start"
    /\ LET lim == get_cpu_limit_main(quotaFile, periodFile, cpuMaxFile)
       IN  IF NoContainer(hostname, container_found)
           THEN monPc' = "returned" /\ UNCHANGED cpu_limit
           ELSE IF lim.k = "return"
           THEN monPc' = "fetching" /\ cpu_limit' = Some(lim.v)
           ELSE monPc' = "raised" /\ UNCHANGED cpu_limit
    /\ UNCHANGED <<program, mainPc, workload, dockerEnv, limitFiles, usageFiles, stats,
                   prev_cpu, prev_src, pair, mem_usage, total_memory_in_bytes, sample>>

\* the stats request completes; the sample is computed and logged, or the
\* error is logged; then await asyncio.sleep(1)
monitor_own_container_tick ==
    /\ Running /\ program = "stats" /\ monPc = "fetching"
    /\ \E fetched \in Fetches :
         LET out == StatsSample(fetched, Get(cpu_limit))
         IN  /\ stats' = fetched
             /\ sample' = IF out.k = "return" THEN Some(out.v) ELSE sample
             /\ monPc' = IF out.k = "raise" THEN "raised" ELSE "sleeping"
    /\ UNCHANGED <<program, mainPc, workload, dockerEnv, limitFiles, usageFiles,
                   cpu_limit, prev_cpu, prev_src, pair, mem_usage, total_memory_in_bytes>>

\* the sleep ends and the next stats request is handed to a worker thread
monitor_own_container_wake ==
    /\ Running /\ program = "stats" /\ monPc = "sleeping"
    /\ monPc' = "fetching"
    /\ UNCHANGED <<program, mainPc, workload, dockerEnv, limitFiles, usageFiles, stats,
                   monitorData>>

\* ------------------------------------------------------------ specifications
IdleData ==
    /\ cpu_limit = None /\ prev_cpu = 0 /\ prev_src = 0 /\ pair = None
    /\ mem_usage = 0 /\ total_memory_in_bytes = 0 /\ sample = None

\* kubernaties_docker_local.py: asyncio.run(main())
Init ==
    /\ program = "direct" /\ monPc = "start" /\ mainPc = "gathering"
    /\ bgPc = "running" /\ tasks = NoTasks
    /\ hostname = None /\ container_found = FALSE
    /\ \E lf \in LoopLimitFiles :
         quotaFile = lf[1] /\ periodFile = lf[2] /\ cpuMaxFile = lf[3]
    /\ kcpu \in 0 .. MaxCpu
    /\ cpuFiles \in CpuEnv(kcpu)
    /\ memFiles = NoMemFiles /\ maxFiles = NoMemFiles
    /\ stats = NoStats
    /\ IdleData

Workload == heavy_computation_background \/ \E i \in 0 .. Rows : heavy_computation(i)

Next ==
    \/ monitor_resources_start
    \/ monitor_resources_tick
    \/ Workload
    \/ main_reraise
    \/ external_cancel

Spec == Init /\ [][Next]_vars

\* The event loop runs every ready callback once per iteration and every
\* timer expires: a coroutine that can take its next step takes it.
WorkloadFairness ==
    /\ WF_vars(heavy_computation_background)
    /\ \A i \in 0 .. Rows : WF_vars(heavy_computation(i))

FairSpec ==
    /\ Spec
    /\ WF_vars(monitor_resources_start)
    /\ WF_vars(monitor_resources_tick)
    /\ WF_vars(main_reraise)
    /\ WorkloadFairness

\* main.py: asyncio.run(main())
StatsInit ==
    /\ program = "stats" /\ monPc = "start" /\ mainPc = "gathering"
    /\ bgPc = "running" /\ tasks = NoTasks
    /\ hostname \in {None, Some(""), Some("c0ffee")}
    /\ container_found \in BOOLEAN
    /\ \E lf \in LoopLimitFiles :
         quotaFile = lf[1] /\ periodFile = lf[2] /\ cpuMaxFile = lf[3]
    /\ kcpu = 0 /\ cpuFiles = NoCpuFiles
    /\ memFiles = NoMemFiles /\ maxFiles = NoMemFiles
    /\ stats = NoStats
    /\ IdleData

StatsNext ==
    \/ monitor_own_container_start
    \/ monitor_own_container_tick
    \/ monitor_own_container_wake
    \/ Workload
    \/ external_cancel

StatsSpec == StatsInit /\ [][StatsNext]_vars

FairStatsSpec ==
    /\ StatsSpec
    /\ WF_vars(monitor_own_container_start)
    /\ WF_vars(monitor_own_container_tick)
    /\ WF_vars(monitor_own_container_wake)
    /\ WorkloadFairness

\* ------------------------------------------------------------ the functions alone
\* Outside a program run: nothing is scheduled, the files are those drawn.
Idle ==
    /\ monPc = "start" /\ mainPc = "idle" /\ bgPc = "idle" /\ tasks = NoTasks
    /\ hostname = None /\ container_found = FALSE
    /\ IdleData

NoLimitFiles ==
    quotaFile = Missing /\ periodFile = Missing /\ cpuMaxFile = PairFile("missing", 0, 0)

NoUsageFiles ==
    kcpu = 0 /\ cpuFiles = NoCpuFiles /\ memFiles = NoMemFiles /\ maxFiles = NoMemFiles

\* get_cpu_limit of either program, over every state of the three files
LimitInit ==
    /\ Idle /\ NoUsageFiles /\ stats = NoStats
    /\ program \in {"direct", "stats"}
    /\ quotaFile \in QuotaFiles
    /\ periodFile \in PeriodFiles
    /\ cpuMaxFile \in CpuMaxFiles

apply_get_cpu_limit ==
    /\ mainPc = "idle" /\ monPc = "start"
    /\ LET lim == IF program = "direct"
                  THEN get_cpu_limit_local(quotaFile, periodFile, cpuMaxFile)
                  ELSE get_cpu_limit_main(quotaFile, periodFile, cpuMaxFile)
       IN  IF lim.k = "return"
           THEN monPc' = "applied" /\ cpu_limit' = Some(lim.v)
           ELSE monPc' = "raised" /\ UNCHANGED cpu_limit
    /\ UNCHANGED <<program, mainPc, workload, dockerEnv, limitFiles, usageFiles, stats,
                   prev_cpu, prev_src, pair, mem_usage, total_memory_in_bytes, sample>>

LimitSpec == LimitInit /\ [][apply_get_cpu_limit]_vars

\* the three counter readers, each over every state of its candidates
CpuVals == {k * CpuStep : k \in 0 .. MaxCpu}
MemVals == {m * BytesPerMb : m \in 0 .. MaxMemMb}
FilesOf(V) == {Missing, Unreadable, Malformed, MaxToken} \cup {Holds(v) : v \in V}
StatFiles ==
    {StatFile(st, 0) : st \in {"missing", "unreadable", "nokey", "noval", "malformed"}}
    \cup {StatFile("int", v \div UsecToNanos) : v \in CpuVals}

ReaderInit ==
    /\ Idle /\ NoLimitFiles /\ stats = NoStats
    /\ program = "direct" /\ kcpu = 0
    /\ \/ /\ cpuFiles \in [paths : FilesOf(CpuVals) \X FilesOf(CpuVals), stat : StatFiles]
          /\ memFiles = NoMemFiles /\ maxFiles = NoMemFiles
       \/ /\ cpuFiles = NoCpuFiles
          /\ memFiles \in FilesOf(MemVals) \X FilesOf(MemVals)
          /\ maxFiles = NoMemFiles
       \/ /\ cpuFiles = NoCpuFiles /\ memFiles = NoMemFiles
          /\ maxFiles \in FilesOf(MemVals) \X FilesOf(MemVals)

apply_readers ==
    /\ mainPc = "idle" /\ monPc = "start"
    /\ LET cpu == read_cpu_usage(cpuFiles)
           mem == read_memory_usage(memFiles)
           total == get_total_memory_in_bytes(maxFiles)
       IN  IF cpu.k = "return" /\ mem.k = "return" /\ total.k = "return"
           THEN /\ monPc' = "applied"
                /\ prev_cpu' = cpu.v /\ prev_src' = CpuSource(cpuFiles)
                /\ mem_usage' = mem.v /\ total_memory_in_bytes' = total.v
           ELSE /\ monPc' = "raised"
                /\ UNCHANGED <<prev_cpu, prev_src, mem_usage, total_memory_in_bytes>>
    /\ UNCHANGED <<program, mainPc, workload, dockerEnv, limitFiles, usageFiles, stats,
                   cpu_limit, pair, sample>>

ReaderSpec == ReaderInit /\ [][apply_readers]_vars

\* calculate_cpu_percent over snapshots with every field present or missing
UsageDomain ==
    {[total_usage |-> t, percpu_usage |-> p] :
        t \in OptInts(0 .. MaxStat), p \in OptInts({0, 3})}
CpuDomain ==
    {None} \cup
    {Some([cpu_usage |-> u, system_cpu_usage |-> sy, online_cpus |-> o]) :
        u \in {None} \cup {Some(x) : x \in UsageDomain},
        sy \in OptInts(0 .. MaxStat), o \in OptInts({0, 2})}
PreDomain ==
    {None} \cup
    {Some([cpu_usage |-> u, system_cpu_usage |-> sy]) :
        u \in {None} \cup {Some([total_usage |-> t, percpu_usage |-> None]) :
                               t \in OptInts(0 .. MaxStat)},
        sy \in OptInts(0 .. MaxStat)}
StatsDomain ==
    {Snap(c, p, MemStats(BytesPerMb, 2 * BytesPerMb)) : c \in CpuDomain, p \in PreDomain}

CalcInit ==
    /\ Idle /\ NoLimitFiles /\ NoUsageFiles
    /\ program = "stats"
    /\ stats \in {[k |-> "dict", v |-> <<st>>] : st \in StatsDomain}

apply_calculate_cpu_percent ==
    /\ mainPc = "idle" /\ monPc = "start"
    /\ LET raw == calculate_cpu_percent(stats.v[1])
       IN  IF raw.k = "return"
           THEN monPc' = "applied" /\ sample' = Some([raw_cpu_percent |-> raw.v])
           ELSE monPc' = "raised" /\ UNCHANGED sample
    /\ UNCHANGED <<program, mainPc, workload, dockerEnv, limitFiles, usageFiles, stats,
                   cpu_limit, prev_cpu, prev_src, pair, mem_usage, total_memory_in_bytes>>

CalcSpec == CalcInit /\ [][apply_calculate_cpu_percent]_vars

\* ------------------------------------------------------------ properties
InLoop(pc) == pc \in {"sleeping", "fetching"}

\* C1: once a sampling loop has started, no turn of it ends it: from a
\* position inside the loop the monitoring coroutine moves only to a position
\* inside the loop, or is cancelled from outside.
C1_NoTickEndsLoop ==
    [][InLoop(monPc) => (InLoop(monPc') \/ monPc' = "cancelled")]_vars

\* C2: get_cpu_limit of either program never raises and returns a strictly
\* positive entitlement, whatever the three accounting files hold.
C2_PositiveEntitlement ==
    /\ monPc # "raised"
    /\ monPc = "applied" => Get(cpu_limit).n > 0

\* C3: with interface A readable, an integer quota and a period > 0,
\* get_cpu_limit of either program returns quota/period for quota > 0 and 1.0
\* for quota <= 0 (the sentinel -1 included), whatever interface B holds.
\* (Stated for every B whose period, if it has one, is positive, so that a
\* violation does not rest on the negative entitlement of C2.)
C3_QuotaOverPeriod ==
    (/\ monPc = "applied"
     /\ quotaFile.st = "int" /\ periodFile.st = "int" /\ periodFile.v > 0
     /\ cpuMaxFile.st = "pair" => cpuMaxFile.p > 0)
    => Get(cpu_limit) = IF quotaFile.v > 0 THEN Rat[quotaFile.v, periodFile.v] ELSE One

\* C4: in main.py, with HOSTNAME absent (or empty) or the container lookup
\* failing, monitor_own_container returns at its first step: it is never
\* inside its loop (no limit resolved, no stats fetched, no sample logged) and
\* never raises, main() does not fail, and once it has returned the gather is
\* still awaited with the workload running, until cancelled from outside.
C4_NoContainerReturns ==
    (hostname = None \/ hostname = Some("") \/ ~container_found)
    => /\ monPc \in {"start", "returned", "cancelled"}
       /\ monPc = "cancelled" => mainPc = "cancelled"
       /\ cpu_limit = None /\ stats = NoStats /\ sample = None
       /\ mainPc \in {"gathering", "cancelled"}
       /\ mainPc = "gathering" => bgPc = "running"

\* C4 witness: the lookup of an identified container failed, the monitor has
\* returned, and heavy_computation tasks are in progress under gather.
C4_Witness ==
    /\ hostname = Some("c0ffee") /\ ~container_found
    /\ monPc = "returned" /\ mainPc = "gathering"
    /\ tasks[Rows] > 0 /\ tasks[0] > 0

\* no limit file holds an integer: the limit is unbounded (the literal max)
\* or unknown
LimitUnbounded == \A i \in 1 .. Len(maxFiles) : maxFiles[i].st # "int"

\* C5: in the direct-file loop, a turn that finds the memory limit unbounded
\* logs no memory usage percentage.
C5_NoPercentWhenUnbounded ==
    (program = "direct" /\ monPc = "sleeping" /\ Has(sample) /\ LimitUnbounded)
    => "memory_usage_percentage" \notin DOMAIN Get(sample)

\* C6: every sample logged by the direct-file loop has rawCpuPercent >= 0,
\* and effectiveCpuPercent >= 0 under a positive entitlement, the kernel
\* counter never decreasing.
C6_NonNegativePercents ==
    (program = "direct" /\ Has(sample))
    => /\ Get(sample).raw_cpu_percent.n >= 0
       /\ Get(cpu_limit).n > 0 => Get(sample).effective_cpu_percent.n >= 0

\* the first candidate, in order, that holds an integer gives the value
FirstValue(files, values, fallback) ==
    LET good == {i \in 1 .. Len(files) : files[i].st = "int"}
    IN  IF good = {} THEN fallback
        ELSE values[CHOOSE i \in good : \A j \in good : i <= j]

\* C7: each counter reader returns the value of the first candidate, in its
\* order, that exists and parses, skipping those that fail; with none it
\* returns 0 (usage) or 1 (limit); it never raises.
C7_ReadersFirstCandidate ==
    /\ monPc # "raised"
    /\ monPc = "applied" =>
         /\ prev_cpu = FirstValue(<<cpuFiles.paths[1], cpuFiles.paths[2], cpuFiles.stat>>,
                                  <<cpuFiles.paths[1].v, cpuFiles.paths[2].v,
                                    cpuFiles.stat.v * UsecToNanos>>, 0)
         /\ mem_usage = FirstValue(memFiles, <<memFiles[1].v, memFiles[2].v>>, 0)
         /\ total_memory_in_bytes
              = FirstValue(maxFiles, <<maxFiles[1].v, maxFiles[2].v>>, 1)

\* C7 witness: the first CPU candidate exists but does not parse, the second
\* parses and its value is the one returned.
C7_Witness ==
    /\ monPc = "applied"
    /\ cpuFiles.paths[1].st = "malformed"
    /\ cpuFiles.paths[2] = Holds(CpuStep)
    /\ cpuFiles.stat.st = "int" /\ cpuFiles.stat.v # CpuStep \div UsecToNanos
    /\ prev_cpu = CpuStep

\* C8: calculate_cpu_percent returns 0.0 when the previous reading is absent
\* or its total_usage is zero or missing; otherwise, when the current
\* total_usage is there, (containerDelta / systemDelta) * onlineCpus * 100 for
\* both deltas > 0 and 0.0 else, onlineCpus being online_cpus, else the number
\* of per-core entries, else 1; it never raises.
C8_CalcCpuPercent ==
    /\ monPc # "raised"
    /\ monPc = "applied" =>
         LET st == stats.v[1]
             r == Get(sample).raw_cpu_percent
             preTotal ==
                 IF st.precpu_stats # None /\ Get(st.precpu_stats).cpu_usage # None
                    /\ Get(Get(st.precpu_stats).cpu_usage).total_usage # None
                 THEN Get(Get(Get(st.precpu_stats).cpu_usage).total_usage) ELSE 0
             preSystem ==
                 IF st.precpu_stats # None /\ Get(st.precpu_stats).system_cpu_usage # None
                 THEN Get(Get(st.precpu_stats).system_cpu_usage) ELSE 0
             hasTotal == st.cpu_stats # None /\ Get(st.cpu_stats).cpu_usage # None
                         /\ Get(Get(st.cpu_stats).cpu_usage).total_usage # None
             c == Get(st.cpu_stats)
             containerDelta == Get(Get(c.cpu_usage).total_usage) - preTotal
             systemDelta == (IF c.system_cpu_usage # None THEN Get(c.system_cpu_usage)
                             ELSE 0) - preSystem
             percpu == Get(c.cpu_usage).percpu_usage
             onlineCpus == IF c.online_cpus \notin {None, Some(0)} THEN Get(c.online_cpus)
                           ELSE IF percpu \notin {None, Some(0)} THEN Get(percpu)
                           ELSE 1
         IN  IF preTotal = 0 \/ ~hasTotal THEN r = Zero
             ELSE IF containerDelta > 0 /\ systemDelta > 0
             THEN r.d > 0 /\ r.n * systemDelta = containerDelta * onlineCpus * Percent * r.d
             ELSE r = Zero

\* C8 witness: online_cpus is missing, three per-core entries and deltas 1
\* and 1 give 300 percent.
C8_Witness ==
    /\ monPc = "applied"
    /\ stats.v[1].cpu_stats # None
    /\ Get(stats.v[1].cpu_stats).online_cpus = None
    /\ Get(sample).raw_cpu_percent = FromInt(3 * Percent)

\* C9: every delta of the direct-file loop is computed from the reading kept
\* by the preceding turn and the current one, the current one taken later,
\* and both read from the same candidate source.
C9_PairFromOneSource ==
    (program = "direct" /\ Has(pair))
    => /\ Get(pair).delta_time > 0
       /\ Get(pair).current_src = Get(pair).prev_src
       /\ monPc = "sleeping" =>
            prev_cpu = Get(pair).current_cpu /\ prev_src = Get(pair).current_src

\* C10: under fair scheduling the sampling loop of the direct-file program
\* takes a turn infinitely often while the workload keeps creating tasks,
\* unless main() is cancelled from outside.
C10_SamplingLive ==
    []<><<monitor_resources_tick>>_vars \/ <>(mainPc = "cancelled")

\* What does hold of the scheduling: the loop takes turns forever unless it
\* is cancelled or its own exception has ended main().
SamplingLiveUnlessRaised ==
    []<><<monitor_resources_tick>>_vars \/ <>(mainPc \in {"cancelled", "failed"})

StatsSamplingLive ==
    []<><<monitor_own_container_tick>>_vars
    \/ <>(mainPc = "cancelled" \/ monPc = "returned")

====
